---- MODULE Spec2Model ----
(***************************************************************************)
(* Fibonacci-mod-m orbit enumerator (src/src/fibonacci_mod.cpp).           *)
(*                                                                         *)
(* The module models main(), computeModCycles() at the granularity of one  *)
(* loop iteration per step, outputJSON(), and the pure helpers             *)
(* comparePairs / findMinCycleIndex / canonicalCycle.  A second family of  *)
(* behaviours ("unit" mode) applies canonicalCycle to arbitrary bounded    *)
(* sequences of pairs, including sequences with repeated elements.         *)
(***************************************************************************)
EXTENDS Integers, Sequences, FiniteSets, TLC

\* ------------------------------------------------------------------ bounds
\* Largest modulus given on the command line.
MaxBase == 8
\* Most negative modulus given on the command line is 0 - MaxNeg.
MaxNeg == 5
\* canonicalCycle unit inputs: components range over 0..MaxVal,
\* sequences have at most MaxLen elements.
MaxVal == 1
MaxLen == 3

\* ------------------------------------------------------- program constants
\* Additive slack of the iteration cap (base * base * 2 + 1000).
IterSlack == 1000
\* showProgress threshold (base > 1000).
ProgressThreshold == 1000

Bases == (0 - MaxNeg)..MaxBase

\* All states of the recurrence for modulus m.
Pairs(m) == (0..(m - 1)) \X (0..(m - 1))

Range(s) == {s[i] : i \in 1..Len(s)}

\* ------------------------------------------------------------ pure helpers

\* comparePairs ignoring the second component.
comparePairsFirstOnly(a, b) ==
    IF a[1] # b[1] THEN (IF a[1] < b[1] THEN 0 - 1 ELSE 1) ELSE 0

\* int comparePairs(const Pair& a, const Pair& b)
comparePairs(a, b) ==
    IF a[1] # b[1] THEN (IF a[1] < b[1] THEN 0 - 1 ELSE 1)
    ELSE IF a[2] # b[2] THEN (IF a[2] < b[2] THEN 0 - 1 ELSE 1)
    ELSE 0

\* Body of the for loop of findMinCycleIndex, from index i (0-based) on.
\* (m is the value of minIdx on entry of the iteration.)
RECURSIVE FindMinFrom(_, _, _)
FindMinFrom(cycle, i, minIdx) ==
    IF i >= Len(cycle) THEN minIdx
    ELSE CHOOSE r \in
            {FindMinFrom(cycle, i + 1,
                IF comparePairs(cycle[i + 1], cycle[m + 1]) < 0
                THEN i ELSE m) : m \in {minIdx}} : TRUE

\* The same loop with <= in place of <.
RECURSIVE FindLastMinFrom(_, _, _)
FindLastMinFrom(cycle, i, minIdx) ==
    IF i >= Len(cycle) THEN minIdx
    ELSE CHOOSE r \in
            {FindLastMinFrom(cycle, i + 1,
                IF comparePairs(cycle[i + 1], cycle[m + 1]) <= 0
                THEN i ELSE m) : m \in {minIdx}} : TRUE

findMinCycleIndexLast(cycle) == FindLastMinFrom(cycle, 1, 0)

\* size_t findMinCycleIndex(const std::vector<Pair>& cycle)   (0-based)
findMinCycleIndex(cycle) == FindMinFrom(cycle, 1, 0)

\* canonicalCycle that returns its argument without rotating it.
canonicalCycleNoRotate(cycle) == cycle

\* std::vector<Pair> canonicalCycle(const std::vector<Pair>& cycle)
canonicalCycle(cycle) ==
    IF cycle = <<>> THEN <<>>
    ELSE LET minIdx == findMinCycleIndex(cycle)
             n == Len(cycle)
         IN  [i \in 1..n |-> cycle[((minIdx + (i - 1)) % n) + 1]]

\* Transition that keeps the first component instead of shifting.
NextStateKeepFirst(p, m) == <<p[1], (p[1] + p[2]) % m>>

\* Transition that multiplies where the code adds.
NextStateProduct(p, m) == <<p[2], (p[1] * p[2]) % m>>

\* nextA = current.second; nextB = (current.first + current.second) % base
NextState(p, m) == <<p[2], (p[1] + p[2]) % m>>

\* Cycle extraction that starts one element too late.
ExtractCycleOffByOne(p, start) == SubSeq(p, start + 2, Len(p))

\* for (i = start; i < path.size(); ++i) cycle.push_back(path[i]);
ExtractCycle(p, start) == SubSeq(p, start + 1, Len(p))

\* Flush that marks only the head of the path.
FlushVisitedHeadOnly(v, p) == IF p = <<>> THEN v ELSE v \cup {p[1]}

\* for (const auto& node : path) visited.insert(node);
FlushVisited(v, p) == v \cup Range(p)

\* Iteration cap that is linear in the modulus.
maxIterationsLinear(m) == m * 2

\* const size_t maxIterations = static_cast<size_t>(base) * base * 2 + 1000
maxIterations(m) == m * m * 2 + IterSlack

\* std::to_string for a non-negative int64: its decimal digits.
DigitChar == <<"0", "1", "2", "3", "4", "5", "6", "7", "8", "9">>

RECURSIVE to_string(_)
to_string(n) ==
    IF n < 0 THEN <<"-">> \o to_string(0 - n)
    ELSE IF n < 10 THEN <<DigitChar[n + 1]>>
    ELSE to_string(n \div 10) \o <<DigitChar[(n % 10) + 1]>>

\* Dedup key: for each pair  first "," second ";"
RECURSIVE CycleKey(_)
CycleKey(cycle) ==
    IF cycle = <<>> THEN <<>>
    ELSE to_string(cycle[1][1]) \o <<",">> \o to_string(cycle[1][2]) \o <<";">>
         \o CycleKey(Tail(cycle))

\* Projection on the second component.
ProjectSecond(cycle) == [i \in 1..Len(cycle) |-> cycle[i][2]]

\* for (const auto& p : cycle) seq.push_back(p.first);
ProjectFirst(cycle) == [i \in 1..Len(cycle) |-> cycle[i][1]]

\* Rejects negative moduli only.
MainRejectsNegativeOnly(b) == b < 0

\* main: if (base <= 0) { error; return 1; }
MainRejects(b) == b <= 0

\* computeModCycles: if (base <= 0) return;
ComputeRejects(b) == b <= 0

\* Loop increments of the nested for loops over (a0, b0).
NextStart(a, b, m) == IF b + 1 < m THEN <<a, b + 1>> ELSE <<a + 1, 0>>

\* Rotation of a sequence by r positions to the left.
Rotate(s, r) == [i \in 1..Len(s) |-> s[((r + (i - 1)) % Len(s)) + 1]]

\* Inputs of the canonicalCycle unit behaviours.
UnitPairs == (0..MaxVal) \X (0..MaxVal)
UnitInputs == UNION {[1..n -> UnitPairs] : n \in 0..MaxLen}

\* The empty State -> position map.
EmptyIndex == [p \in {} |-> 0]

\* ------------------------------------------------------------------- state
VARIABLES
    pc,              \* control point: main, scan, walk, flush, dedup,
                     \* returned, exit; "unit" for canonicalCycle behaviours
    base,            \* the modulus parsed from argv[1]
    run,             \* 1 for the first call of computeModCycles, 2 for a repeat
    a0, b0,          \* loop variables of the row-major scan
    visited,         \* std::unordered_set<Pair> visited
    rawCycles,       \* std::vector<std::vector<Pair>> rawCycles
    path,            \* std::vector<Pair> path
    seenIndex,       \* std::unordered_map<Pair, size_t> seenIndex
    current,         \* Pair current
    iterations,      \* size_t iterations
    k,               \* position of the dedup loop in rawCycles (0-based)
    seen,            \* std::unordered_set<std::string> seen
    sequences,       \* output parameter sequences
    cyclesPairs,     \* output parameter cyclesPairs
    stdout,          \* documents written by outputJSON
    stderr,          \* diagnostics written by main / computeModCycles
    exitCode,        \* return value of main, -1 while running
    prevSequences,   \* outputs of the first call, kept for comparison
    prevCyclesPairs,
    startLog,        \* history: starting pairs of the traversals of this call
    pushLog,         \* history: every pair appended to a path in this call
    rawStart,        \* history: starting pair of the traversal of rawCycles[i]
    rawInput,        \* history: rawCycles[i] before canonicalization
    retStart,        \* history: starting pair that produced cyclesPairs[i]
    closeLog,        \* history: how each traversal of this call left the loop
    uStage,          \* unit behaviours: off, input, rotated, canon, recanon
    uIn,             \* unit: the input sequence c
    uShift,          \* unit: the rotation amount
    uRot,            \* unit: a rotation r of c
    uRef,            \* unit: canonicalCycle(c)
    uOut,            \* unit: canonicalCycle(r)
    uOut2            \* unit: canonicalCycle(canonicalCycle(r))

mainVars == <<pc, base, run, stdout, stderr, exitCode,
              prevSequences, prevCyclesPairs>>
scanVars == <<a0, b0, visited, rawCycles>>
walkVars == <<path, seenIndex, current, iterations>>
dedupVars == <<k, seen>>
outVars == <<sequences, cyclesPairs>>
histVars == <<startLog, pushLog, rawStart, rawInput, retStart, closeLog>>
unitVars == <<uStage, uIn, uShift, uRot, uRef, uOut, uOut2>>
vars == <<mainVars, scanVars, walkVars, dedupVars, outVars, histVars, unitVars>>

\* Values shared by both kinds of initial state.
InitCommon ==
    /\ run = 1
    /\ a0 = 0 /\ b0 = 0
    /\ visited = {}
    /\ rawCycles = <<>>
    /\ path = <<>>
    /\ seenIndex = EmptyIndex
    /\ current = <<0, 0>>
    /\ iterations = 0
    /\ k = 0
    /\ seen = {}
    /\ sequences = <<>>
    /\ cyclesPairs = <<>>
    /\ stdout = <<>>
    /\ stderr = <<>>
    /\ exitCode = 0 - 1
    /\ prevSequences = <<>>
    /\ prevCyclesPairs = <<>>
    /\ startLog = <<>>
    /\ pushLog = <<>>
    /\ rawStart = <<>>
    /\ rawInput = <<>>
    /\ retStart = <<>>
    /\ closeLog = <<>>
    /\ uShift = 0
    /\ uRot = <<>>
    /\ uRef = <<>>
    /\ uOut = <<>>
    /\ uOut2 = <<>>

\* main after  int64 base = std::stoll(argv[1]);
InitMain ==
    /\ pc = "main"
    /\ base \in Bases
    /\ uStage = "off"
    /\ uIn = <<>>
    /\ InitCommon

\* A sequence of pairs handed to canonicalCycle.
InitUnit ==
    /\ pc = "unit"
    /\ base = 0
    /\ uStage = "input"
    /\ uIn \in UnitInputs
    /\ InitCommon

Init == InitMain \/ InitUnit

\* ----------------------------------------------------------------- actions

\* Entry of computeModCycles that keeps the visited set of an earlier call.
EnterComputeStaleVisited ==
    /\ startLog' = <<>> /\ pushLog' = <<>>
    /\ rawStart' = <<>> /\ rawInput' = <<>> /\ retStart' = <<>>
    /\ closeLog' = <<>>
    /\ UNCHANGED <<walkVars, dedupVars>>
    /\ IF ComputeRejects(base)
       THEN pc' = "returned" /\ UNCHANGED scanVars
       ELSE /\ pc' = "scan"
            /\ visited' = visited
            /\ rawCycles' = <<>>
            /\ a0' = 0 /\ b0' = 0

\* Entry of computeModCycles: the guard on base and the construction of the
\* locals visited and rawCycles, up to the head of the scan loops.
EnterCompute ==
    /\ startLog' = <<>> /\ pushLog' = <<>>
    /\ rawStart' = <<>> /\ rawInput' = <<>> /\ retStart' = <<>>
    /\ closeLog' = <<>>
    /\ UNCHANGED <<walkVars, dedupVars>>
    /\ IF ComputeRejects(base)
       THEN pc' = "returned" /\ UNCHANGED scanVars
       ELSE /\ pc' = "scan"
            /\ visited' = {}
            /\ rawCycles' = <<>>
            /\ a0' = 0 /\ b0' = 0

\* main: base <= 0 is reported on the diagnostic stream, main returns 1.
MainReject ==
    /\ pc = "main"
    /\ MainRejects(base)
    /\ stderr' = Append(stderr, "invalid modulus")
    /\ exitCode' = 1
    /\ pc' = "exit"
    /\ UNCHANGED <<base, run, stdout, prevSequences, prevCyclesPairs>>
    /\ UNCHANGED <<scanVars, walkVars, dedupVars, outVars, histVars, unitVars>>

\* main: constructs empty sequences / cyclesPairs and calls computeModCycles.
MainCall ==
    /\ pc = "main"
    /\ ~MainRejects(base)
    /\ sequences' = <<>>
    /\ cyclesPairs' = <<>>
    /\ EnterCompute
    /\ UNCHANGED <<base, run, stdout, stderr, exitCode,
                   prevSequences, prevCyclesPairs>>
    /\ UNCHANGED unitVars

\* Scan loop: the starting pair is already visited (continue).
ScanSkip ==
    /\ pc = "scan"
    /\ a0 < base
    /\ <<a0, b0>> \in visited
    /\ a0' = NextStart(a0, b0, base)[1]
    /\ b0' = NextStart(a0, b0, base)[2]
    /\ UNCHANGED <<mainVars, visited, rawCycles>>
    /\ UNCHANGED <<walkVars, dedupVars, outVars, histVars, unitVars>>

\* Scan loop: an unvisited starting pair opens a traversal.
ScanStart ==
    /\ pc = "scan"
    /\ a0 < base
    /\ <<a0, b0>> \notin visited
    /\ path' = <<>>
    /\ seenIndex' = EmptyIndex
    /\ current' = <<a0, b0>>
    /\ iterations' = 0
    /\ pc' = "walk"
    /\ startLog' = Append(startLog, <<a0, b0>>)
    /\ UNCHANGED <<base, run, stdout, stderr, exitCode,
                   prevSequences, prevCyclesPairs>>
    /\ UNCHANGED <<scanVars, dedupVars, outVars, unitVars>>
    /\ UNCHANGED <<pushLog, rawStart, rawInput, retStart, closeLog>>

\* Scan loops exhausted: the dedup pass begins with an empty key set.
ScanEnd ==
    /\ pc = "scan"
    /\ a0 >= base
    /\ seen' = {}
    /\ k' = 0
    /\ pc' = "dedup"
    /\ UNCHANGED <<base, run, stdout, stderr, exitCode,
                   prevSequences, prevCyclesPairs>>
    /\ UNCHANGED <<scanVars, walkVars, outVars, histVars, unitVars>>

\* While loop body when current is not keyed in seenIndex.
WalkStep ==
    /\ pc = "walk"
    /\ iterations < maxIterations(base)
    /\ current \notin DOMAIN seenIndex
    /\ seenIndex' = [p \in (DOMAIN seenIndex) \cup {current} |->
                        IF p = current THEN Len(path) ELSE seenIndex[p]]
    /\ path' = Append(path, current)
    /\ current' = NextState(current, base)
    /\ iterations' = iterations + 1
    /\ pushLog' = Append(pushLog, current)
    /\ UNCHANGED <<mainVars, scanVars, dedupVars, outVars, unitVars>>
    /\ UNCHANGED <<startLog, rawStart, rawInput, retStart, closeLog>>

\* Exit of the while loop: through the repeated-state branch (the suffix of
\* path from the recorded index is canonicalized and pushed on rawCycles when
\* it is not empty) or because the iteration cap is reached (nothing pushed).
WalkExit ==
    /\ pc = "walk"
    /\ \/ iterations >= maxIterations(base)
       \/ current \in DOMAIN seenIndex
    /\ IF iterations < maxIterations(base)
       THEN LET start == seenIndex[current]
                cycle == ExtractCycle(path, start)
            IN  IF cycle # <<>>
                THEN /\ rawCycles' = Append(rawCycles, canonicalCycle(cycle))
                     /\ rawStart' = Append(rawStart, <<a0, b0>>)
                     /\ rawInput' = Append(rawInput, cycle)
                ELSE UNCHANGED <<rawCycles, rawStart, rawInput>>
       ELSE UNCHANGED <<rawCycles, rawStart, rawInput>>
    /\ closeLog' = Append(closeLog,
          IF iterations < maxIterations(base)
          THEN [how |-> "repeat",
                start |-> seenIndex[current],
                iters |-> iterations,
                pathLen |-> Len(path),
                emitted |-> ExtractCycle(path, seenIndex[current]) # <<>>]
          ELSE [how |-> "cap",
                start |-> 0 - 1,
                iters |-> iterations,
                pathLen |-> Len(path),
                emitted |-> FALSE])
    /\ pc' = "flush"
    /\ UNCHANGED <<base, run, stdout, stderr, exitCode,
                   prevSequences, prevCyclesPairs>>
    /\ UNCHANGED <<a0, b0, visited>>
    /\ UNCHANGED <<walkVars, dedupVars, outVars, unitVars>>
    /\ UNCHANGED <<startLog, pushLog, retStart>>

\* After the while loop: every node of path is inserted in visited, the
\* progress line is written for large moduli, path and seenIndex go out of
\* scope and the for loops advance.
Flush ==
    /\ pc = "flush"
    /\ visited' = FlushVisited(visited, path)
    /\ LET totalPairs == base * base
           interval == IF totalPairs \div 100 > 1 THEN totalPairs \div 100 ELSE 1
           pos == a0 * base + b0
       IN  IF base > ProgressThreshold /\ pos % interval = 0
           THEN stderr' = Append(stderr, <<"progress", (pos * 100) \div totalPairs>>)
           ELSE stderr' = stderr
    /\ path' = <<>>
    /\ seenIndex' = EmptyIndex
    /\ current' = <<0, 0>>
    /\ iterations' = 0
    /\ a0' = NextStart(a0, b0, base)[1]
    /\ b0' = NextStart(a0, b0, base)[2]
    /\ pc' = "scan"
    /\ UNCHANGED <<base, run, stdout, exitCode, prevSequences, prevCyclesPairs>>
    /\ UNCHANGED <<rawCycles, dedupVars, outVars, histVars, unitVars>>

\* One iteration of the dedup loop: the key of rawCycles[k] is built; a key
\* not seen before is recorded and the cycle and its projection are appended
\* to the outputs.
Dedup ==
    /\ pc = "dedup"
    /\ k < Len(rawCycles)
    /\ LET cycle == rawCycles[k + 1]
           key == CycleKey(cycle)
       IN  IF key \notin seen
           THEN /\ seen' = seen \cup {key}
                /\ cyclesPairs' = Append(cyclesPairs, cycle)
                /\ sequences' = Append(sequences, ProjectFirst(cycle))
                /\ retStart' = Append(retStart, rawStart[k + 1])
           ELSE UNCHANGED <<seen, cyclesPairs, sequences, retStart>>
    /\ k' = k + 1
    /\ UNCHANGED <<mainVars, scanVars, walkVars, unitVars>>
    /\ UNCHANGED <<startLog, pushLog, rawStart, rawInput, closeLog>>

\* End of the dedup loop: computeModCycles returns to its caller.
DedupEnd ==
    /\ pc = "dedup"
    /\ k >= Len(rawCycles)
    /\ pc' = "returned"
    /\ UNCHANGED <<base, run, stdout, stderr, exitCode,
                   prevSequences, prevCyclesPairs>>
    /\ UNCHANGED <<scanVars, walkVars, dedupVars, outVars, histVars, unitVars>>

\* main after the call: the summary goes to the diagnostic stream,
\* outputJSON writes the document, main returns 0.
Output ==
    /\ pc = "returned"
    /\ stderr' = Append(stderr, "done")
    /\ stdout' = Append(stdout, [base |-> base,
                                 sequence_count |-> Len(sequences),
                                 sequences |-> sequences,
                                 cycles_pairs |-> cyclesPairs])
    /\ exitCode' = 0
    /\ pc' = "exit"
    /\ UNCHANGED <<base, run, prevSequences, prevCyclesPairs>>
    /\ UNCHANGED <<scanVars, walkVars, dedupVars, outVars, histVars, unitVars>>

\* A second call of computeModCycles with the same modulus and freshly
\* constructed (empty) output containers; the outputs of the first call are
\* kept for comparison.
CallAgain ==
    /\ pc = "returned"
    /\ run = 1
    /\ run' = 2
    /\ prevSequences' = sequences
    /\ prevCyclesPairs' = cyclesPairs
    /\ sequences' = <<>>
    /\ cyclesPairs' = <<>>
    /\ EnterCompute
    /\ UNCHANGED <<base, stdout, stderr, exitCode>>
    /\ UNCHANGED unitVars

\* Unit behaviour: some rotation r of the input c is formed.
UnitRotate ==
    /\ pc = "unit"
    /\ uStage = "input"
    /\ \E r \in 0..(IF Len(uIn) = 0 THEN 0 ELSE Len(uIn) - 1) :
          /\ uShift' = r
          /\ uRot' = Rotate(uIn, r)
    /\ uStage' = "rotated"
    /\ UNCHANGED <<uIn, uRef, uOut, uOut2>>
    /\ UNCHANGED <<mainVars, scanVars, walkVars, dedupVars, outVars, histVars>>

\* Unit behaviour: canonicalCycle is applied to c and to r.
UnitCanon ==
    /\ pc = "unit"
    /\ uStage = "rotated"
    /\ uRef' = canonicalCycle(uIn)
    /\ uOut' = canonicalCycle(uRot)
    /\ uStage' = "canon"
    /\ UNCHANGED <<uIn, uShift, uRot, uOut2>>
    /\ UNCHANGED <<mainVars, scanVars, walkVars, dedupVars, outVars, histVars>>

\* Unit behaviour: canonicalCycle is applied to its own result.
UnitRecanon ==
    /\ pc = "unit"
    /\ uStage = "canon"
    /\ uOut2' = canonicalCycle(uOut)
    /\ uStage' = "recanon"
    /\ UNCHANGED <<uIn, uShift, uRot, uRef, uOut>>
    /\ UNCHANGED <<mainVars, scanVars, walkVars, dedupVars, outVars, histVars>>

Next ==
    \/ MainReject
    \/ MainCall
    \/ ScanSkip
    \/ ScanStart
    \/ ScanEnd
    \/ WalkStep
    \/ WalkExit
    \/ Flush
    \/ Dedup
    \/ DedupEnd
    \/ Output
    \/ CallAgain
    \/ UnitRotate
    \/ UnitCanon
    \/ UnitRecanon

Spec == Init /\ [][Next]_vars

\* The program is one sequential computation without suspension points:
\* whenever a step is possible, a step is taken.
FairSpec == Spec /\ WF_vars(Next)

\* ---------------------------------------------------------------- typing
TypeOK ==
    /\ pc \in {"main", "scan", "walk", "flush", "dedup", "returned", "exit", "unit"}
    /\ base \in Bases
    /\ run \in {1, 2}
    /\ exitCode \in {0 - 1, 0, 1}
    /\ uStage \in {"off", "input", "rotated", "canon", "recanon"}
    /\ (pc = "unit") = (uStage # "off")

\* ------------------------------------------------- vocabulary of the claims

\* computeModCycles has returned for a positive modulus.
Returned == pc \in {"returned", "exit"} /\ base > 0

\* Positions <<i, j>> of the elements of a sequence of cycles.
Positions(cs) ==
    UNION {{<<i, j>> : j \in 1..Len(cs[i])} : i \in 1..Len(cs)}

\* Number of elements summed over a sequence of cycles.
RECURSIVE TotalElements(_)
TotalElements(cs) ==
    IF cs = <<>> THEN 0 ELSE Len(Head(cs)) + TotalElements(Tail(cs))

\* Number of cycles of length n in a sequence of cycles.
LenCount(cs, n) == Cardinality({i \in 1..Len(cs) : Len(cs[i]) = n})

\* Number of occurrences of x in the sequence s.
Count(s, x) == Cardinality({i \in 1..Len(s) : s[i] = x})

\* Lexicographic order on pairs: first component, then second.
LexLess(p, q) == p[1] < q[1] \/ (p[1] = q[1] /\ p[2] < q[2])
LexLeq(p, q) == p = q \/ LexLess(p, q)

\* Lowest 0-based index of c holding the lexicographically minimal pair.
LowestMinIndex(c) ==
    CHOOSE i \in 0..(Len(c) - 1) :
        /\ \A j \in 1..Len(c) : LexLeq(c[i + 1], c[j])
        /\ \A j \in 1..i : c[j] # c[i + 1]

\* Position of a starting pair in the row-major scan for modulus m.
RowMajor(p, m) == p[1] * m + p[2]

\* ------------------------------------------------------------------ claims

\* C1: after computeModCycles(m), m > 0, on empty output containers, every
\* pair of [0,m) x [0,m) occurs at exactly one position of the returned
\* cycles, no other pair occurs, and the cycles hold m * m elements in all.
C1_Partition ==
    Returned =>
        /\ \A p \in Pairs(base) :
              Cardinality({pos \in Positions(cyclesPairs) :
                              cyclesPairs[pos[1]][pos[2]] = p}) = 1
        /\ \A pos \in Positions(cyclesPairs) :
              cyclesPairs[pos[1]][pos[2]] \in Pairs(base)
        /\ TotalElements(cyclesPairs) = base * base

C1_Witness ==
    /\ pc = "exit" /\ base = 3 /\ run = 1
    /\ Len(cyclesPairs) = 2
    /\ TotalElements(cyclesPairs) = 9

C3_ClosedOrbit ==
    (pc # "unit" /\ base > 0) =>
        \A i \in 1..Len(cyclesPairs) :
            LET c == cyclesPairs[i]
            IN  /\ Len(c) > 0
                /\ \A j \in 1..Len(c) :
                      c[(j % Len(c)) + 1] =
                          <<c[j][2], (c[j][1] + c[j][2]) % base>>
                /\ \A j1, j2 \in 1..Len(c) : j1 # j2 => c[j1] # c[j2]

C3_Witness ==
    /\ pc = "returned" /\ base = 5
    /\ \E i \in 1..Len(cyclesPairs) : Len(cyclesPairs[i]) = 20

\* C4: every returned cycle starts at its lexicographically smallest pair;
\* canonicalCycle starts its result at the lowest index of its input that
\* holds the minimal pair (for the raw cycles of the enumeration and for
\* arbitrary inputs, repeated elements included).
C4_CanonicalStart ==
    /\ (pc # "unit" /\ base > 0) =>
          /\ \A i \in 1..Len(cyclesPairs) :
                \A j \in 1..Len(cyclesPairs[i]) :
                    LexLeq(cyclesPairs[i][1], cyclesPairs[i][j])
          /\ \A i \in 1..Len(rawCycles) :
                rawCycles[i] = Rotate(rawInput[i], LowestMinIndex(rawInput[i]))
    /\ (uStage \in {"canon", "recanon"} /\ uRot # <<>>) =>
          /\ uOut = Rotate(uRot, LowestMinIndex(uRot))
          /\ \A j \in 1..Len(uOut) : LexLeq(uOut[1], uOut[j])

C4_Witness ==
    /\ pc = "returned" /\ base = 4
    /\ Len(cyclesPairs) = 4
    /\ cyclesPairs[4][1] = <<0, 3>>

\* C5: the returned cycles are in first-discovery order of the row-major
\* scan, and a second call with the same modulus on empty output containers
\* returns the same ordered sequences and cycles.
C5_DiscoveryOrder ==
    (pc # "unit" /\ base > 0) =>
        /\ Len(retStart) = Len(cyclesPairs)
        /\ \A i \in 1..Len(cyclesPairs) :
              /\ retStart[i] \in Range(cyclesPairs[i])
              /\ \A r \in 1..Len(rawCycles) :
                    rawCycles[r] = cyclesPairs[i] =>
                        RowMajor(retStart[i], base) <= RowMajor(rawStart[r], base)
        /\ \A i, j \in 1..Len(cyclesPairs) :
              i < j => RowMajor(retStart[i], base) < RowMajor(retStart[j], base)
        /\ (pc \in {"returned", "exit"} /\ run = 2) =>
              /\ sequences = prevSequences
              /\ cyclesPairs = prevCyclesPairs

C5_Witness ==
    /\ pc = "returned" /\ run = 2 /\ base = 4
    /\ Len(cyclesPairs) = 4
    /\ cyclesPairs = prevCyclesPairs

\* C6: sequences and cyclesPairs have the same number of entries, which is
\* the emitted sequence_count; sequences[i] has the length of cyclesPairs[i]
\* and sequences[i][j] is the first component of cyclesPairs[i][j].
C6_ParallelProjection ==
    pc # "unit" =>
        /\ Len(sequences) = Len(cyclesPairs)
        /\ \A i \in 1..Len(cyclesPairs) :
              /\ Len(sequences[i]) = Len(cyclesPairs[i])
              /\ \A j \in 1..Len(cyclesPairs[i]) :
                    sequences[i][j] = cyclesPairs[i][j][1]
        /\ \A d \in 1..Len(stdout) :
              /\ stdout[d].sequence_count = Len(stdout[d].sequences)
              /\ stdout[d].sequence_count = Len(stdout[d].cycles_pairs)
              /\ stdout[d].sequences = sequences
              /\ stdout[d].cycles_pairs = cyclesPairs

C6_Witness ==
    /\ pc = "exit" /\ base = 3
    /\ Len(stdout) = 1
    /\ stdout[1].sequence_count = 2
    /\ Len(sequences[2]) = 8

\* C7: for a modulus m <= 0 the run ends with the invalid-modulus diagnostic
\* and a failure status, starts no traversal, writes no document and leaves
\* sequences and cyclesPairs without any element.
C7_InvalidModulus ==
    (pc # "unit" /\ base <= 0) =>
        /\ pc \in {"main", "exit"}
        /\ startLog = <<>> /\ pushLog = <<>>
        /\ sequences = <<>> /\ cyclesPairs = <<>>
        /\ stdout = <<>>
        /\ pc = "exit" => (exitCode = 1 /\ stderr = <<"invalid modulus">>)

C7_Witness ==
    /\ pc = "exit" /\ base = 0 - 5
    /\ exitCode = 1

\* C8 as stated: for every non-empty sequence c of pairs, repeated elements
\* allowed, and every rotation r of c, canonicalCycle(r) = canonicalCycle(c).
C8_Original ==
    (uStage \in {"canon", "recanon"} /\ uIn # <<>>) => uOut = uRef

\* C8 amended: for every non-empty sequence c of pairs whose minimal pair
\* occurs at exactly one position, and every rotation r of c,
\* canonicalCycle(r) = canonicalCycle(c).
C8_RotationInvariant ==
    (/\ uStage \in {"canon", "recanon"}
     /\ uIn # <<>>
     /\ Count(uIn, uIn[LowestMinIndex(uIn) + 1]) = 1) => uOut = uRef

C8_Witness ==
    /\ uStage = "canon"
    /\ uIn = <<<<1, 0>>, <<0, 1>>, <<1, 0>>>>
    /\ uShift = 2
    /\ uOut = <<<<0, 1>>, <<1, 0>>, <<1, 0>>>>

\* C9: canonicalCycle(canonicalCycle(c)) = canonicalCycle(c) for every
\* sequence c of pairs, the empty one included.
C9_Idempotent ==
    uStage = "recanon" => uOut2 = uOut

C9_Witness ==
    /\ uStage = "recanon"
    /\ uRot = <<<<0, 1>>, <<0, 0>>, <<0, 0>>>>
    /\ uOut2 = <<<<0, 0>>, <<0, 0>>, <<0, 1>>>>

\* C10: within one call no pair starts more than one traversal or is
\* appended to a path more than once, a traversal in progress holds no pair
\* of the visited set, after the scan every pair has been appended exactly
\* once and visited is the whole state space, and visited never loses an
\* element during the call.
C10_NoReexploration ==
    /\ [](pc # "unit" =>
            /\ \A p \in Range(startLog) : Count(startLog, p) = 1
            /\ \A p \in Range(pushLog) : Count(pushLog, p) = 1
            /\ pc = "walk" =>
                  /\ current \notin visited
                  /\ Range(path) \cap visited = {}
                  /\ startLog[Len(startLog)] \notin visited
            /\ (pc \in {"dedup", "returned", "exit"} /\ base > 0) =>
                  /\ visited = Pairs(base)
                  /\ \A p \in Pairs(base) : Count(pushLog, p) = 1)
    /\ [][run' = run => visited \subseteq visited']_vars

C10_Witness ==
    /\ pc = "dedup" /\ base = 4 /\ run = 1
    /\ visited = Pairs(4)
    /\ Len(startLog) = 4
    /\ Len(pushLog) = 16

\* C11: every traversal that begins leaves the while loop through the
\* repeated-state branch, after at most m * m appends (m * m + 1 evaluations
\* of the loop body), and pushes a non-empty cycle; the iteration cap
\* 2 * m * m + 1000 is never reached; and every run that starts in main
\* reaches the exit of main.
C11_Safety ==
    (pc # "unit" /\ base > 0) =>
        /\ pc = "walk" =>
              /\ iterations = Len(path)
              /\ iterations <= base * base
              /\ iterations < 2 * base * base + 1000
        /\ \A i \in 1..Len(closeLog) :
              /\ closeLog[i].how = "repeat"
              /\ closeLog[i].emitted
              /\ closeLog[i].iters + 1 <= base * base + 1
              /\ closeLog[i].iters < 2 * base * base + 1000
        /\ Len(closeLog) = Len(startLog) - (IF pc = "walk" THEN 1 ELSE 0)
        /\ Len(rawCycles) = Len(closeLog)
        /\ \A i \in 1..Len(rawCycles) : rawCycles[i] # <<>>

C11_CycleFound ==
    /\ []C11_Safety
    /\ (pc = "main") ~> (pc = "exit")

C11_Witness ==
    /\ pc = "flush" /\ base = 5
    /\ closeLog[Len(closeLog)].how = "repeat"
    /\ closeLog[Len(closeLog)].iters = 20
    /\ Len(rawCycles[Len(rawCycles)]) = 20

\* C12: the repeated state of every traversal is its starting pair: the
\* recorded index is 0 and the extracted cycle is the whole path; the
\* canonicalized raw cycles are pairwise distinct, the dedup loop retains
\* every one of them, and the number of returned cycles is the number of
\* traversals started.
C12_CloseAtStart ==
    (pc # "unit" /\ base > 0) =>
        /\ (pc = "walk" /\ current \in DOMAIN seenIndex) =>
              /\ seenIndex[current] = 0
              /\ current = <<a0, b0>>
              /\ path[1] = <<a0, b0>>
        /\ Len(rawInput) = Len(closeLog)
        /\ \A i \in 1..Len(closeLog) :
              /\ closeLog[i].start = 0
              /\ Len(rawInput[i]) = closeLog[i].pathLen
              /\ rawInput[i][1] = rawStart[i]
        /\ \A i, j \in 1..Len(rawCycles) :
              i # j => rawCycles[i] # rawCycles[j]
        /\ pc = "dedup" =>
              /\ Len(cyclesPairs) = k
              /\ cyclesPairs = SubSeq(rawCycles, 1, k)
        /\ pc \in {"returned", "exit"} =>
              /\ cyclesPairs = rawCycles
              /\ Len(cyclesPairs) = Len(startLog)

C12_Witness ==
    /\ pc = "returned" /\ base = 8 /\ run = 1
    /\ Len(startLog) = 8
    /\ Len(cyclesPairs) = 8
    /\ closeLog[8].start = 0 /\ closeLog[8].pathLen = 12

====
